---------------------------- MODULE Spec2Model ----------------------------
(***************************************************************************)
(* Model of HumanOptimizedMotionDetector (src/motion_detector.py) and of   *)
(* the configuration it reads (src/config.py).                             *)
(*                                                                         *)
(* A preprocessed frame is a sequence of gray levels.  A contour is the    *)
(* record of what cv2.boundingRect and cv2.contourArea return for it:      *)
(* [x, y, w, h, area].  The OpenCV calls whose code is not part of the     *)
(* repository (blur, morphology, findContours) are inputs of the tick: the *)
(* blurred frame and the list of contours found, the latter empty when the *)
(* binarised mask has no changed pixel.  Time is an integer clock that     *)
(* advances before a frame is read and before a manual reset; the two      *)
(* time.time() reads of one process_motion_detection call (lines 394 and   *)
(* 230) return the same value.                                             *)
(* The background accumulator is kept in thousandths of a gray level and   *)
(* learning rates in thousandths.                                          *)
(***************************************************************************)
EXTENDS Integers, Sequences, FiniteSets

VARIABLES
    config,             \* the constants of config.py the claims vary
    pc,                 \* position of run(): start, process, key, done
    now,                \* the clock read by time.time()
    self,               \* the fields of the HumanOptimizedMotionDetector
    cleanups,           \* number of times cleanup() has run
    thresh,             \* mask returned by the last detect_motion_enhanced
    contours,           \* contours returned by the last detect_motion_enhanced
    persistent_motion,  \* flag returned by the last detect_motion_enhanced
    log,                \* events written by log_motion_event
    observed,           \* history variable: the has-motion flags appended since
                        \* motion_history was last empty
    found,              \* contours cv2.findContours handed to the area filter
    printed,            \* what run() printed on leaving its loop ("" while it runs)
    display,            \* what the last draw_enhanced_info drew and returned
    saved,              \* labelled boxes of the last image written by
                        \* save_motion_frame_with_detection (<<>>: none yet)
    kernel,             \* ksize handed to the last cv2.GaussianBlur (<<>>: none yet)
    last_frame          \* gray image of the last frame cap.read() returned

vars == <<config, pc, now, self, cleanups, thresh, contours, persistent_motion,
          log, observed, found, printed, display, saved, kernel, last_frame>>

\* Python's None for a frame-valued field: no frame (a frame has at least one pixel)
None == <<>>

-----------------------------------------------------------------------------
(* Bounds of the model *)

MaxPersistence == 2     \* largest MOTION_PERSISTENCE_FRAMES of the general specification
MaxCooldown == 1        \* largest MOTION_ALERT_COOLDOWN drawn
MaxFrames == 3          \* frames read in the general specification
MaxDelta == 1           \* largest clock advance between two frame reads
ShortInterval == 1      \* RESET_BACKGROUND_INTERVAL of the general specification
StartTime == 10         \* time.time() at construction
MaxWindow == 3          \* largest MOTION_PERSISTENCE_FRAMES fed to the persistence vote
MaxObservations == 6    \* observations fed to the persistence vote
StillFrames == 10       \* frames without motion that open the sustained-motion scenario
MotionFrames == 4       \* frames with motion that follow them
SettleFrames == 28      \* identical frames that open the lighting scenario
LitFrames == 3          \* frames of any lighting that follow them
BackgroundFrames == 12  \* frames read in the background-update scenario
MaxFound == 3           \* contours handed to the region extraction

-----------------------------------------------------------------------------
(* Constants of config.py that the claims do not vary *)

MOTION_THRESHOLD == 35
MIN_CONTOUR_AREA == 800
MAX_CONTOUR_AREA == 50000
CONTOUR_MERGE_DISTANCE == 100
MIN_HUMAN_AREA == 3000
BACKGROUND_UPDATE_RATE == 5
SLOW_UPDATE_RATE == 1


-----------------------------------------------------------------------------
(* Helpers *)

RECURSIVE SumSeq(_)
SumSeq(s) == IF s = <<>> THEN 0 ELSE Head(s) + SumSeq(Tail(s))

AbsDiff(a, b) == IF a >= b THEN a - b ELSE b - a

MinOf(S) == CHOOSE m \in S : \A n \in S : m <= n

MaxOf(S) == CHOOSE m \in S : \A n \in S : m >= n

CountTrue(h) == Cardinality({i \in 1..Len(h) : h[i]})

-----------------------------------------------------------------------------
(* preprocess_frame: the lighting baseline and the adaptive threshold.      *)
(* np.mean(blurred) < 50 is SumSeq(frame) < 50 * Len(frame), and likewise   *)
(* for > 200.                                                               *)

\* Mutant: the two offsets exchanged
AdaptedThresholdSwapped(frame) ==
    IF SumSeq(frame) < 50 * Len(frame) THEN MOTION_THRESHOLD + 10
    ELSE IF SumSeq(frame) > 200 * Len(frame) THEN MOTION_THRESHOLD + 15
    ELSE MOTION_THRESHOLD

\* Mutant: a dark scene lowers the threshold instead of raising it
AdaptedThresholdLowered(frame) ==
    IF SumSeq(frame) < 50 * Len(frame) THEN MOTION_THRESHOLD - 50
    ELSE IF SumSeq(frame) > 200 * Len(frame) THEN MOTION_THRESHOLD + 10
    ELSE MOTION_THRESHOLD

AdaptedThreshold(frame) ==
    IF SumSeq(frame) < 50 * Len(frame) THEN MOTION_THRESHOLD + 15
    ELSE IF SumSeq(frame) > 200 * Len(frame) THEN MOTION_THRESHOLD + 10
    ELSE MOTION_THRESHOLD

\* Mutant: the baseline and the threshold are recomputed on every frame
PreprocessFrameEveryTick(cfg, count, frame, baseline, threshold) ==
    [baseline |-> SumSeq(frame),
     threshold |-> IF cfg.ADAPTIVE_THRESHOLD THEN AdaptedThreshold(frame)
                   ELSE threshold]

\* [baseline, threshold] after preprocess_frame on the frame numbered count
PreprocessFrame(cfg, count, frame, baseline, threshold) ==
    IF count % 30 = 0
    THEN [baseline |-> SumSeq(frame),
          threshold |-> IF cfg.ADAPTIVE_THRESHOLD THEN AdaptedThreshold(frame)
                        ELSE threshold]
    ELSE [baseline |-> baseline, threshold |-> threshold]

-----------------------------------------------------------------------------
(* update_background *)

Seeded(frame) == [i \in 1..Len(frame) |-> frame[i] * 1000]

\* cv2.accumulateWeighted: dst = (1 - alpha) * dst + alpha * src
Blended(bg, frame, rate) ==
    [i \in 1..Len(frame) |-> (bg[i] * (1000 - rate) + frame[i] * 1000 * rate) \div 1000]

UpdateBackground(bg, frame, rate) ==
    IF bg = None THEN Seeded(frame) ELSE Blended(bg, frame, rate)

-----------------------------------------------------------------------------
(* Frame difference and binarisation (cv2.absdiff, cv2.threshold BINARY)   *)

FrameDiff(prev, cur) == [i \in 1..Len(cur) |-> AbsDiff(prev[i], cur[i])]

\* Mutant: a difference equal to the threshold counts as changed
ChangedAtThreshold(diff, threshold) == diff >= threshold

Changed(diff, threshold) == diff > threshold

ThresholdMask(diff, threshold) ==
    [i \in 1..Len(diff) |-> IF Changed(diff[i], threshold) THEN 255 ELSE 0]

MaskEmpty(mask) == \A i \in 1..Len(mask) : mask[i] = 0

-----------------------------------------------------------------------------
(* Area filter *)

AreaValid(c) == MIN_CONTOUR_AREA <= c.area /\ c.area <= MAX_CONTOUR_AREA

FilterByArea(cs) == SelectSeq(cs, AreaValid)

-----------------------------------------------------------------------------
(* merge_nearby_contours *)

CenterX(c) == c.x + c.w \div 2

CenterY(c) == c.y + c.h \div 2

\* np.sqrt(dx**2 + dy**2) < CONTOUR_MERGE_DISTANCE
CentersClose(a, b) ==
    (CenterX(a) - CenterX(b)) * (CenterX(a) - CenterX(b))
      + (CenterY(a) - CenterY(b)) * (CenterY(a) - CenterY(b))
    < CONTOUR_MERGE_DISTANCE * CONTOUR_MERGE_DISTANCE

OverlapX(a, b) ==
    LET lo == IF a.x >= b.x THEN a.x ELSE b.x
        hi == IF a.x + a.w <= b.x + b.w THEN a.x + a.w ELSE b.x + b.w
    IN  IF hi - lo > 0 THEN hi - lo ELSE 0

OverlapY(a, b) ==
    LET lo == IF a.y >= b.y THEN a.y ELSE b.y
        hi == IF a.y + a.h <= b.y + b.h THEN a.y + a.h ELSE b.y + b.h
    IN  IF hi - lo > 0 THEN hi - lo ELSE 0

ShouldMerge(a, b) ==
    CentersClose(a, b) \/ (OverlapX(a, b) > 0 /\ OverlapY(a, b) > 0)

\* The 4-corner contour np.array([[min_x,min_y],[max_x,min_y],[max_x,max_y],[min_x,max_y]])
\* as cv2.boundingRect and cv2.contourArea see it.
RectContour(min_x, min_y, max_x, max_y) ==
    [x |-> min_x, y |-> min_y, w |-> max_x - min_x + 1, h |-> max_y - min_y + 1,
     area |-> (max_x - min_x) * (max_y - min_y)]

\* The rectangles the pass starting at rectangle i absorbs: those not yet
\* used that are close to, or overlap, rectangle i itself.
Absorbed(rs, i, used) ==
    {j \in (1..Len(rs)) \ (used \cup {i}) : ShouldMerge(rs[i], rs[j])}

\* Mutant: the merged rectangle is the starting rectangle alone
MergedRectOfFirst(rs, members) ==
    LET i == MinOf(members)
    IN  RectContour(rs[i].x, rs[i].y, rs[i].x + rs[i].w, rs[i].y + rs[i].h)

MergedRect(rs, members) ==
    RectContour(MinOf({rs[k].x : k \in members}),
                MinOf({rs[k].y : k \in members}),
                MaxOf({rs[k].x + rs[k].w : k \in members}),
                MaxOf({rs[k].y + rs[k].h : k \in members}))

KeepGroup(rs, i, members) ==
    Cardinality(members) > 1 \/ rs[i].area > MIN_CONTOUR_AREA

RECURSIVE MergeLoop(_, _, _, _)
MergeLoop(rs, i, used, merged_rectangles) ==
    IF i > Len(rs) THEN merged_rectangles
    ELSE IF i \in used THEN MergeLoop(rs, i + 1, used, merged_rectangles)
    ELSE LET members == Absorbed(rs, i, used) \cup {i}
         IN  MergeLoop(rs, i + 1, used \cup members,
                       IF KeepGroup(rs, i, members)
                       THEN Append(merged_rectangles, MergedRect(rs, members))
                       ELSE merged_rectangles)

MergeNearbyContours(cfg, cs) ==
    IF ~cfg.MERGE_NEARBY_CONTOURS \/ Len(cs) <= 1 THEN cs
    ELSE MergeLoop(cs, 1, {}, <<>>)

-----------------------------------------------------------------------------
(* Cap: sorted(motion_contours, key=cv2.contourArea, reverse=True)[:MAX]    *)
(* Python's sort is stable, also with reverse=True.                         *)

RECURSIVE InsertByArea(_, _)
InsertByArea(sorted, c) ==
    IF sorted = <<>> THEN <<c>>
    ELSE IF Head(sorted).area >= c.area
         THEN <<Head(sorted)>> \o InsertByArea(Tail(sorted), c)
         ELSE <<c>> \o sorted

RECURSIVE SortByAreaDesc(_)
SortByAreaDesc(cs) ==
    IF cs = <<>> THEN <<>>
    ELSE InsertByArea(SortByAreaDesc(SubSeq(cs, 1, Len(cs) - 1)), cs[Len(cs)])

\* Mutant: the cap keeps the first regions in extraction order
LimitObjectsUnsorted(cfg, cs) ==
    IF Len(cs) > cfg.MAX_DETECTION_OBJECTS
    THEN SubSeq(cs, 1, cfg.MAX_DETECTION_OBJECTS)
    ELSE cs

LimitObjects(cfg, cs) ==
    IF Len(cs) > cfg.MAX_DETECTION_OBJECTS
    THEN SubSeq(SortByAreaDesc(cs), 1, cfg.MAX_DETECTION_OBJECTS)
    ELSE cs

\* Lines 181-194 of detect_motion_enhanced: filter, merge, cap
ExtractRegions(cfg, cs) == LimitObjects(cfg, MergeNearbyContours(cfg, FilterByArea(cs)))

-----------------------------------------------------------------------------
(* Motion persistence *)

\* Mutant: the oldest flag is never evicted
UpdateHistoryNoEviction(cfg, history, has_motion) == Append(history, has_motion)

UpdateHistory(cfg, history, has_motion) ==
    IF Len(history) + 1 > cfg.MOTION_PERSISTENCE_FRAMES
    THEN Tail(Append(history, has_motion))
    ELSE Append(history, has_motion)

\* Mutant: every flag of the window must be true
PersistentMotionUnanimous(cfg, history) ==
    IF Len(history) >= cfg.MOTION_PERSISTENCE_FRAMES
    THEN CountTrue(history) >= cfg.MOTION_PERSISTENCE_FRAMES
    ELSE FALSE

\* Mutant: the vote does not wait for a full window
PersistentMotionNoWarmup(cfg, history) ==
    CountTrue(history) >= cfg.MOTION_PERSISTENCE_FRAMES - 1

PersistentMotion(cfg, history) ==
    IF Len(history) >= cfg.MOTION_PERSISTENCE_FRAMES
    THEN CountTrue(history) >= cfg.MOTION_PERSISTENCE_FRAMES - 1
    ELSE FALSE


-----------------------------------------------------------------------------
(* Background reset: auto_reset_background and the 'r' key of run()         *)

\* Mutant: the background accumulator survives the reset
ResetBackgroundKeepsBackground(d, t) ==
    [d EXCEPT !.prev_frame = None,
              !.motion_history = <<>>,
              !.last_background_reset = t]

\* Mutant: the previous frame survives the reset
ResetBackgroundKeepsPrevious(d, t) ==
    [d EXCEPT !.background_frame = None,
              !.motion_history = <<>>,
              !.last_background_reset = t]

ResetBackground(d, t) ==
    [d EXCEPT !.background_frame = None,
              !.prev_frame = None,
              !.motion_history = <<>>,
              !.last_background_reset = t]

\* Mutant: the reset is taken as soon as the interval has elapsed
AutoResetDueAtInterval(cfg, d, t) ==
    cfg.AUTO_RESET_BACKGROUND /\ t - d.last_background_reset >= cfg.RESET_BACKGROUND_INTERVAL

AutoResetDue(cfg, d, t) ==
    cfg.AUTO_RESET_BACKGROUND /\ t - d.last_background_reset > cfg.RESET_BACKGROUND_INTERVAL

AutoResetBackground(cfg, d, t) ==
    IF AutoResetDue(cfg, d, t) THEN ResetBackground(d, t) ELSE d

-----------------------------------------------------------------------------
(* detect_motion_enhanced.  The result is [d, thresh, contours,            *)
(* persistent_motion, ready, has_motion]: the detector after the call, the *)
(* three values returned, and whether the call got past the first-frame    *)
(* return and what it appended to the history.                             *)

\* cv2.findContours on the mask after morphology: nothing when no pixel changed
FindContoursAllows(mask, cs) == MaskEmpty(mask) => cs = <<>>

\* Mutant: the background is still blended on the tenth consecutive motion frame
BackgroundAfterTenth(d, cur, has_motion, consecutive) ==
    IF ~has_motion THEN UpdateBackground(d.background_frame, cur, BACKGROUND_UPDATE_RATE)
    ELSE IF consecutive <= 10 THEN UpdateBackground(d.background_frame, cur, SLOW_UPDATE_RATE)
    ELSE d.background_frame

BackgroundAfter(d, cur, has_motion, consecutive) ==
    IF ~has_motion THEN UpdateBackground(d.background_frame, cur, BACKGROUND_UPDATE_RATE)
    ELSE IF consecutive < 10 THEN UpdateBackground(d.background_frame, cur, SLOW_UPDATE_RATE)
    ELSE d.background_frame

\* Mutant: the first frame after a reset is entered in the history as a miss
DetectMotionEnhancedCountsFirst(cfg, d, cur, cs) ==
    IF d.prev_frame = None
    THEN [d |-> [d EXCEPT !.prev_frame = cur,
                          !.motion_history = UpdateHistory(cfg, @, FALSE),
                          !.background_frame =
                              UpdateBackground(d.background_frame, cur, BACKGROUND_UPDATE_RATE)],
          thresh |-> None, contours |-> <<>>, persistent_motion |-> FALSE,
          ready |-> FALSE, has_motion |-> FALSE]
    ELSE LET mask == ThresholdMask(FrameDiff(d.prev_frame, cur), d.current_threshold)
             motion_contours == ExtractRegions(cfg, cs)
             current_has_motion == Len(motion_contours) > 0
             history == UpdateHistory(cfg, d.motion_history, current_has_motion)
             consecutive == IF current_has_motion
                            THEN d.consecutive_motion_frames + 1 ELSE 0
         IN  [d |-> [d EXCEPT !.motion_history = history,
                              !.consecutive_motion_frames = consecutive,
                              !.background_frame =
                                  BackgroundAfter(d, cur, current_has_motion, consecutive),
                              !.prev_frame = cur],
              thresh |-> mask, contours |-> motion_contours,
              persistent_motion |-> PersistentMotion(cfg, history),
              ready |-> TRUE, has_motion |-> current_has_motion]

DetectMotionEnhanced(cfg, d, cur, cs) ==
    IF d.prev_frame = None
    THEN [d |-> [d EXCEPT !.prev_frame = cur,
                          !.background_frame =
                              UpdateBackground(d.background_frame, cur, BACKGROUND_UPDATE_RATE)],
          thresh |-> None, contours |-> <<>>, persistent_motion |-> FALSE,
          ready |-> FALSE, has_motion |-> FALSE]
    ELSE LET mask == ThresholdMask(FrameDiff(d.prev_frame, cur), d.current_threshold)
             motion_contours == ExtractRegions(cfg, cs)
             current_has_motion == Len(motion_contours) > 0
             history == UpdateHistory(cfg, d.motion_history, current_has_motion)
             consecutive == IF current_has_motion
                            THEN d.consecutive_motion_frames + 1 ELSE 0
         IN  [d |-> [d EXCEPT !.motion_history = history,
                              !.consecutive_motion_frames = consecutive,
                              !.background_frame =
                                  BackgroundAfter(d, cur, current_has_motion, consecutive),
                              !.prev_frame = cur],
              thresh |-> mask, contours |-> motion_contours,
              persistent_motion |-> PersistentMotion(cfg, history),
              ready |-> TRUE, has_motion |-> current_has_motion]

-----------------------------------------------------------------------------
(* process_motion_detection: the alert                                      *)

HumanCount(cs) == Cardinality({i \in 1..Len(cs) : cs[i].area >= MIN_HUMAN_AREA})

TotalArea(cs) == SumSeq([i \in 1..Len(cs) |-> cs[i].area])

\* Mutant: the cooldown is not consulted
AlertsWithoutCooldown(cfg, d, persistent, current_time) == persistent

Alerts(cfg, d, persistent, current_time) ==
    persistent /\ current_time - d.last_motion_time > cfg.MOTION_ALERT_COOLDOWN

\* Mutant: the event does not restart the cooldown timer
AfterAlertKeepsTimer(d, cs, current_time) ==
    [d EXCEPT !.total_detections = @ + 1,
              !.human_detections = IF HumanCount(cs) > 0 THEN @ + 1 ELSE @]

\* Mutant: an event with a human is counted as a human detection only
AfterAlertCountsEither(d, cs, current_time) ==
    [d EXCEPT !.last_motion_time = current_time,
              !.total_detections = IF HumanCount(cs) > 0 THEN @ ELSE @ + 1,
              !.human_detections = IF HumanCount(cs) > 0 THEN @ + 1 ELSE @]

AfterAlert(d, cs, current_time) ==
    [d EXCEPT !.last_motion_time = current_time,
              !.total_detections = @ + 1,
              !.human_detections = IF HumanCount(cs) > 0 THEN @ + 1 ELSE @]

LogEntry(d, cs, current_time) ==
    [time |-> current_time, frame |-> d.frame_count, objects |-> Len(cs),
     humans |-> HumanCount(cs), area |-> TotalArea(cs), threshold |-> d.current_threshold]

-----------------------------------------------------------------------------
(* What is drawn: draw_enhanced_info and save_motion_frame_with_detection.  *)
(* A drawn box is the contour's bounding box, its area and its label.       *)

SHOW_CONTOURS == TRUE

SAVE_MOTION_FRAMES == TRUE

SAVE_WITH_DETECTION_BOXES == TRUE

Box(c, label) == [x |-> c.x, y |-> c.y, w |-> c.w, h |-> c.h, area |-> c.area,
                  label |-> label]

\* Lines 312-328: the box drawn on the live view for one contour
DrawnBox(c) == Box(c, IF c.area >= MIN_HUMAN_AREA THEN "HUMAN" ELSE "Motion")

\* Line 331
DrawnHumanCount(cs) == Cardinality({i \in 1..Len(cs) : cs[i].area >= MIN_HUMAN_AREA})

\* Line 380
DrawnOtherCount(cs) == Cardinality({i \in 1..Len(cs) : cs[i].area < MIN_HUMAN_AREA})

StatusText(cs, persistent) ==
    IF persistent
    THEN IF DrawnHumanCount(cs) > 0 THEN "HUMAN DETECTED!" ELSE "MOTION DETECTED!"
    ELSE "No Motion"

\* The display before any frame has been drawn
NoDisplay == [boxes |-> <<>>, status |-> "", human_count |-> 0, counts |-> <<>>]

DrawEnhancedInfo(cs, persistent) ==
    [boxes |-> IF SHOW_CONTOURS /\ persistent
               THEN [i \in 1..Len(cs) |-> DrawnBox(cs[i])] ELSE <<>>,
     status |-> StatusText(cs, persistent),
     human_count |-> DrawnHumanCount(cs),
     counts |-> IF persistent /\ cs # <<>>
                THEN <<DrawnOtherCount(cs), DrawnHumanCount(cs)>> ELSE <<>>]

\* Mutant: a region of exactly MIN_HUMAN_AREA is saved as ordinary motion
SavedBoxStrict(c) == Box(c, IF c.area > MIN_HUMAN_AREA THEN "HUMAN" ELSE "Motion")

\* Lines 260-276: the box drawn on the saved image for one contour
SavedBox(c) == Box(c, IF c.area >= MIN_HUMAN_AREA THEN "HUMAN" ELSE "Motion")

\* The image written, or the last one written when this call writes none
SaveMotionFrameWithDetection(last, cs, human_count) ==
    IF SAVE_MOTION_FRAMES /\ cs # <<>>
    THEN [boxes |-> IF SAVE_WITH_DETECTION_BOXES
                    THEN [i \in 1..Len(cs) |-> SavedBox(cs[i])] ELSE <<>>,
          objects |-> Len(cs), humans |-> human_count]
    ELSE last

-----------------------------------------------------------------------------
(* Exceptions of one process_motion_detection call.  cv2.GaussianBlur      *)
(* rejects a kernel size that is not positive and odd (sigma is 0),         *)
(* cv2.absdiff rejects frames of different sizes, np.ones rejects a         *)
(* negative dimension.                                                      *)

BlurSizeValid(cfg) == cfg.GAUSSIAN_BLUR_SIZE > 0 /\ cfg.GAUSSIAN_BLUR_SIZE % 2 = 1

\* Line 63 raises: nothing of preprocess_frame after it runs
RaisedInPreprocess(cfg) == ~BlurSizeValid(cfg)

\* Lines 158 and 167, reached only when there is a previous frame: "" when
\* neither raises
RaisedInDetect(cfg, d, cur) ==
    IF d.prev_frame = None THEN ""
    ELSE IF Len(cur) # Len(d.prev_frame) THEN "Error: cv2.error"
    ELSE IF cfg.MORPHOLOGY_KERNEL_SIZE < 0 THEN "Error: ValueError"
    ELSE ""

-----------------------------------------------------------------------------
(* Construction and the steps of run()                                      *)

NewDetector(t) ==
    [prev_frame |-> None, background_frame |-> None, last_motion_time |-> 0,
     frame_count |-> 0, last_background_reset |-> t, motion_history |-> <<>>,
     consecutive_motion_frames |-> 0, total_detections |-> 0, human_detections |-> 0,
     current_threshold |-> MOTION_THRESHOLD, lighting_baseline |-> 0]

InitWith(cfg) ==
    /\ config = cfg
    /\ pc = "start"
    /\ now = StartTime
    /\ self = NewDetector(StartTime)
    /\ cleanups = 0
    /\ thresh = None
    /\ contours = <<>>
    /\ persistent_motion = FALSE
    /\ log = <<>>
    /\ observed = <<>>
    /\ found = <<>>
    /\ printed = ""
    /\ display = NoDisplay
    /\ saved = <<>>
    /\ kernel = <<>>
    /\ last_frame = None

\* cleanup(), which the finally clause of run() calls on every way out
Cleanup ==
    /\ cleanups' = cleanups + 1
    /\ pc' = "done"

\* initialize_camera: the capture opens, or it raises and run() goes to finally
InitializeCamera(opened) ==
    /\ pc = "start"
    /\ IF opened THEN pc' = "process" /\ UNCHANGED <<cleanups, printed>>
       ELSE Cleanup /\ printed' = "Error: Cannot open camera"
    /\ UNCHANGED <<config, now, self, thresh, contours, persistent_motion, log,
                   observed, found, display, saved, kernel, last_frame>>

\* Mutant: the loop is left on a failed read without going through cleanup
ReadFailsWithoutCleanup ==
    /\ pc = "process"
    /\ pc' = "done"
    /\ printed' = "Failed to read frame"
    /\ UNCHANGED <<config, now, self, cleanups, thresh, contours, persistent_motion,
                   log, observed, found, display, saved, kernel, last_frame>>

\* process_motion_detection when cap.read() fails: run() leaves the loop
ReadFails ==
    /\ pc = "process"
    /\ Cleanup
    /\ printed' = "Failed to read frame"
    /\ UNCHANGED <<config, now, self, thresh, contours, persistent_motion, log,
                   observed, found, display, saved, kernel, last_frame>>

\* process_motion_detection on a frame read dt after the previous read, whose
\* blurred gray image is cur and in whose mask findContours finds cs
ProcessMotionDetection(dt, cur, cs) ==
    /\ pc = "process"
    /\ LET current_time == now + dt
           counted == [self EXCEPT !.frame_count = @ + 1]
           reset == AutoResetBackground(config, counted, current_time)
           pre == PreprocessFrame(config, reset.frame_count, cur,
                                  reset.lighting_baseline, reset.current_threshold)
           lit == [reset EXCEPT !.lighting_baseline = pre.baseline,
                                !.current_threshold = pre.threshold]
           res == DetectMotionEnhanced(config, lit, cur, cs)
           alert == Alerts(config, res.d, res.persistent_motion, current_time)
           cleared == IF AutoResetDue(config, counted, current_time) THEN <<>> ELSE observed
       IN  /\ ~RaisedInPreprocess(config)
           /\ RaisedInDetect(config, lit, cur) = ""
           /\ lit.prev_frame # None =>
                  FindContoursAllows(
                      ThresholdMask(FrameDiff(lit.prev_frame, cur), lit.current_threshold), cs)
           /\ lit.prev_frame = None => cs = <<>>
           /\ now' = current_time
           /\ self' = IF alert THEN AfterAlert(res.d, res.contours, current_time) ELSE res.d
           /\ log' = IF alert THEN Append(log, LogEntry(res.d, res.contours, current_time))
                     ELSE log
           /\ thresh' = res.thresh
           /\ contours' = res.contours
           /\ persistent_motion' = res.persistent_motion
           /\ observed' = IF res.ready THEN Append(cleared, res.has_motion) ELSE cleared
           /\ saved' = IF alert
                       THEN SaveMotionFrameWithDetection(saved, res.contours,
                                                         HumanCount(res.contours))
                       ELSE saved
           /\ display' = DrawEnhancedInfo(res.contours, res.persistent_motion)
    /\ kernel' = <<config.GAUSSIAN_BLUR_SIZE, config.GAUSSIAN_BLUR_SIZE>>
    /\ last_frame' = cur
    /\ pc' = "key"
    /\ UNCHANGED <<config, cleanups, found, printed>>

\* process_motion_detection on a frame at which one of its calls raises: the
\* exception leaves through run()'s "except Exception", with the assignments
\* made before it kept
ProcessRaises(dt, cur) ==
    /\ pc = "process"
    /\ LET current_time == now + dt
           counted == [self EXCEPT !.frame_count = @ + 1]
           reset == AutoResetBackground(config, counted, current_time)
           pre == PreprocessFrame(config, reset.frame_count, cur,
                                  reset.lighting_baseline, reset.current_threshold)
           lit == [reset EXCEPT !.lighting_baseline = pre.baseline,
                                !.current_threshold = pre.threshold]
           cleared == IF AutoResetDue(config, counted, current_time) THEN <<>> ELSE observed
       IN  /\ RaisedInPreprocess(config) \/ RaisedInDetect(config, lit, cur) # ""
           /\ now' = current_time
           /\ self' = IF RaisedInPreprocess(config) THEN reset ELSE lit
           /\ printed' = IF RaisedInPreprocess(config) THEN "Error: cv2.error"
                         ELSE RaisedInDetect(config, lit, cur)
           /\ observed' = cleared
    /\ kernel' = <<config.GAUSSIAN_BLUR_SIZE, config.GAUSSIAN_BLUR_SIZE>>
    /\ last_frame' = cur
    /\ Cleanup
    /\ UNCHANGED <<config, thresh, contours, persistent_motion, log, found, display,
                   saved>>

\* cv2.waitKey(1) returns no key, or a key run() does not handle
KeyNone ==
    /\ pc = "key"
    /\ pc' = "process"
    /\ UNCHANGED <<config, now, self, cleanups, thresh, contours, persistent_motion,
                   log, observed, found, printed, display, saved, kernel, last_frame>>

\* 'q'
KeyQuit ==
    /\ pc = "key"
    /\ Cleanup
    /\ printed' = "Quitting"
    /\ UNCHANGED <<config, now, self, thresh, contours, persistent_motion, log,
                   observed, found, display, saved, kernel, last_frame>>

\* 's': a frame is read and written to a file; the detector is not touched
KeySave ==
    /\ pc = "key"
    /\ pc' = "process"
    /\ UNCHANGED <<config, now, self, cleanups, thresh, contours, persistent_motion,
                   log, observed, found, printed, display, saved, kernel, last_frame>>

\* 'r': manual reset, stamped with the clock read dt after the frame was read
KeyReset(dt) ==
    /\ pc = "key"
    /\ now' = now + dt
    /\ self' = ResetBackground(self, now')
    /\ observed' = <<>>
    /\ pc' = "process"
    /\ UNCHANGED <<config, cleanups, thresh, contours, persistent_motion, log, found,
                   printed, display, saved, kernel, last_frame>>

\* 't': toggles run()'s local show_threshold, which nothing reads
KeyToggle ==
    /\ pc = "key"
    /\ pc' = "process"
    /\ UNCHANGED <<config, now, self, cleanups, thresh, contours, persistent_motion,
                   log, observed, found, printed, display, saved, kernel, last_frame>>

\* KeyboardInterrupt while the loop runs
Interrupt ==
    /\ pc \in {"process", "key"}
    /\ Cleanup
    /\ printed' = "Interrupted by user"
    /\ UNCHANGED <<config, now, self, thresh, contours, persistent_motion, log,
                   observed, found, display, saved, kernel, last_frame>>

-----------------------------------------------------------------------------
(* Inputs *)

\* config.py as it stands (times in whole time units, rates in thousandths)
DefaultConfig ==
    [MOTION_PERSISTENCE_FRAMES |-> 2, MOTION_ALERT_COOLDOWN |-> 3,
     MERGE_NEARBY_CONTOURS |-> TRUE, MAX_DETECTION_OBJECTS |-> 5,
     AUTO_RESET_BACKGROUND |-> TRUE, RESET_BACKGROUND_INTERVAL |-> 300,
     ADAPTIVE_THRESHOLD |-> TRUE, GAUSSIAN_BLUR_SIZE |-> 21,
     MORPHOLOGY_KERNEL_SIZE |-> 5]

\* Blurred gray frames of two pixels: a flat one, and one with a pixel 80 levels up
Gray == <<128, 128>>

Block == <<128, 208>>

TickFrames == {Gray, Block}

\* Contours findContours may report on a mask with changed pixels
Speck == [x |-> 5, y |-> 5, w |-> 30, h |-> 30, area |-> 600]

Ordinary == [x |-> 10, y |-> 10, w |-> 40, h |-> 40, area |-> 1500]

Human == [x |-> 300, y |-> 100, w |-> 80, h |-> 200, area |-> 12000]

FoundChoices == {<<>>, <<Ordinary>>, <<Human>>}

-----------------------------------------------------------------------------
(* The general specification: run() under every configuration drawn        *)

Init ==
    \E n \in 1..MaxPersistence, cd \in 0..MaxCooldown, ar \in BOOLEAN :
        InitWith([DefaultConfig EXCEPT !.MOTION_PERSISTENCE_FRAMES = n,
                                       !.MOTION_ALERT_COOLDOWN = cd,
                                       !.AUTO_RESET_BACKGROUND = ar,
                                       !.RESET_BACKGROUND_INTERVAL = ShortInterval])

Tick ==
    /\ self.frame_count < MaxFrames
    /\ \E dt \in 0..MaxDelta, cur \in TickFrames, cs \in FoundChoices :
           ProcessMotionDetection(dt, cur, cs)

Next ==
    \/ \E opened \in BOOLEAN : InitializeCamera(opened)
    \/ ReadFails
    \/ Tick
    \/ KeyNone
    \/ KeyQuit
    \/ KeySave
    \/ \E dt \in 0..MaxDelta : KeyReset(dt)
    \/ KeyToggle
    \/ Interrupt

Spec == Init /\ [][Next]_vars


-----------------------------------------------------------------------------
(* The persistence vote alone: the detector run on frames that change at   *)
(* every tick, so that any sequence of has-motion flags can occur, with    *)
(* manual resets in between.                                               *)

InitPersistence ==
    \E n \in 1..MaxWindow :
        InitWith([DefaultConfig EXCEPT !.MOTION_PERSISTENCE_FRAMES = n,
                                       !.MOTION_ALERT_COOLDOWN = 0])

TickPersistence ==
    /\ self.frame_count < MaxObservations + 1
    /\ \E cur \in TickFrames \ {self.prev_frame}, cs \in {<<>>, <<Ordinary>>} :
           ProcessMotionDetection(1, cur, cs)

NextPersistence ==
    \/ InitializeCamera(TRUE)
    \/ TickPersistence
    \/ KeyNone
    \/ KeyReset(1)

SpecPersistence == InitPersistence /\ [][NextPersistence]_vars

-----------------------------------------------------------------------------
(* A static scene: every frame read is the same flat gray frame.           *)

TickIdentical ==
    /\ self.frame_count < MaxFrames
    /\ \E dt \in 0..MaxDelta, cs \in FoundChoices :
           ProcessMotionDetection(dt, Gray, cs)

NextIdentical ==
    \/ InitializeCamera(TRUE)
    \/ TickIdentical
    \/ KeyNone
    \/ KeySave
    \/ KeyToggle

SpecIdentical == Init /\ [][NextIdentical]_vars


-----------------------------------------------------------------------------
(* Sustained motion after a still start: persistence window 3, the first   *)
(* StillFrames frames identical, every later frame different from the one  *)
(* before it and with a region found, no key pressed, no reset due.        *)

InitSustained ==
    \E cd \in 0..MaxCooldown :
        InitWith([DefaultConfig EXCEPT !.MOTION_PERSISTENCE_FRAMES = 3,
                                       !.MOTION_ALERT_COOLDOWN = cd])

TickStill ==
    /\ self.frame_count < StillFrames
    /\ \E dt \in 0..MaxDelta, cs \in FoundChoices :
           ProcessMotionDetection(dt, Gray, cs)

TickMoving ==
    /\ self.frame_count >= StillFrames
    /\ self.frame_count < StillFrames + MotionFrames
    /\ \E dt \in 0..MaxDelta, cur \in TickFrames \ {self.prev_frame},
          cs \in FoundChoices \ {<<>>} :
           ProcessMotionDetection(dt, cur, cs)

NextSustained ==
    \/ InitializeCamera(TRUE)
    \/ TickStill
    \/ TickMoving
    \/ KeyNone

SpecSustained == InitSustained /\ [][NextSustained]_vars

-----------------------------------------------------------------------------
(* Region extraction alone (lines 181-194 of detect_motion_enhanced): the  *)
(* contours found are drawn at the start, one step filters, merges and     *)
(* caps them.                                                              *)

\* Three 40x40 boxes in a row, 20 pixels apart
RowA == [x |-> 0, y |-> 0, w |-> 40, h |-> 40, area |-> 1500]

RowB == [x |-> 60, y |-> 0, w |-> 40, h |-> 40, area |-> 1500]

RowC == [x |-> 120, y |-> 0, w |-> 40, h |-> 40, area |-> 1500]

\* Two 300x100 boxes, 20 pixels apart
WideA == [x |-> 0, y |-> 200, w |-> 300, h |-> 100, area |-> 20000]

WideB == [x |-> 320, y |-> 200, w |-> 300, h |-> 100, area |-> 20000]

\* A contour of exactly the minimum area, far from the others
Edge == [x |-> 500, y |-> 0, w |-> 40, h |-> 40, area |-> 800]

FoundContours == {RowA, RowB, RowC, WideA, WideB, Edge, Speck, Human}

RECURSIVE DistinctSeqs(_, _)
DistinctSeqs(S, n) ==
    IF n = 0 THEN {<<>>}
    ELSE LET shorter == DistinctSeqs(S, n - 1)
         IN  shorter \cup {Append(q, c) : q \in {r \in shorter : Len(r) = n - 1},
                                           c \in S}

FoundLists ==
    {q \in DistinctSeqs(FoundContours, MaxFound) :
        \A i, j \in 1..Len(q) : i # j => q[i] # q[j]}

InitRegions ==
    \E merge \in BOOLEAN, cap \in {1, 2, 5}, cs \in FoundLists :
        /\ config = [DefaultConfig EXCEPT !.MERGE_NEARBY_CONTOURS = merge,
                                          !.MAX_DETECTION_OBJECTS = cap]
        /\ pc = "extract"
        /\ now = StartTime
        /\ self = [NewDetector(StartTime) EXCEPT !.prev_frame = Gray,
                                                 !.background_frame = Seeded(Gray),
                                                 !.frame_count = 1]
        /\ cleanups = 0
        /\ thresh = None
        /\ contours = <<>>
        /\ persistent_motion = FALSE
        /\ log = <<>>
        /\ observed = <<>>
        /\ found = cs
        /\ printed = ""
        /\ display = DrawEnhancedInfo(<<>>, FALSE)
        /\ saved = <<>>
        /\ kernel = <<21, 21>>
        /\ last_frame = Gray

Extract ==
    /\ pc = "extract"
    /\ contours' = ExtractRegions(config, found)
    /\ pc' = "extracted"
    /\ UNCHANGED <<config, now, self, cleanups, thresh, persistent_motion, log,
                   observed, found, printed, display, saved, kernel, last_frame>>

NextRegions == Extract

SpecRegions == InitRegions /\ [][NextRegions]_vars

-----------------------------------------------------------------------------
(* Differencing alone: a detector holding any previous frame under any     *)
(* effective threshold processes one more frame.                           *)

PixelLevels == {100, 135, 136, 145, 146, 150, 151}

DiffFrames == {<<a, b>> : a \in PixelLevels, b \in PixelLevels}

EffectiveThresholds == {MOTION_THRESHOLD, MOTION_THRESHOLD + 10, MOTION_THRESHOLD + 15}

InitDiff ==
    \E prev \in DiffFrames, threshold \in EffectiveThresholds :
        /\ config = DefaultConfig
        /\ pc = "process"
        /\ now = StartTime
        /\ self = [NewDetector(StartTime) EXCEPT !.prev_frame = prev,
                                                 !.background_frame = Seeded(prev),
                                                 !.frame_count = 1,
                                                 !.current_threshold = threshold]
        /\ cleanups = 0
        /\ thresh = None
        /\ contours = <<>>
        /\ persistent_motion = FALSE
        /\ log = <<>>
        /\ observed = <<>>
        /\ found = <<>>
        /\ printed = ""
        /\ display = DrawEnhancedInfo(<<>>, FALSE)
        /\ saved = <<>>
        /\ kernel = <<21, 21>>
        /\ last_frame = prev

TickDiff ==
    /\ self.frame_count < 2
    /\ \E cur \in DiffFrames, cs \in FoundChoices : ProcessMotionDetection(1, cur, cs)

NextDiff == TickDiff

SpecDiff == InitDiff /\ [][NextDiff]_vars

-----------------------------------------------------------------------------
(* Faulty frames: a read that fails, and a frame whose size differs from   *)
(* the frames before it.                                                   *)

\* A flat frame of three pixels instead of two
Resized == <<128, 128, 128>>

FaultFrames == TickFrames \cup {Resized}

InitFaults ==
    \E ar \in BOOLEAN :
        InitWith([DefaultConfig EXCEPT !.MOTION_ALERT_COOLDOWN = 0,
                                       !.AUTO_RESET_BACKGROUND = ar,
                                       !.RESET_BACKGROUND_INTERVAL = ShortInterval])

TickFaults ==
    /\ self.frame_count < MaxFrames
    /\ \E dt \in 0..MaxDelta, cur \in FaultFrames, cs \in FoundChoices :
           ProcessMotionDetection(dt, cur, cs)

RaiseFaults ==
    /\ self.frame_count < MaxFrames
    /\ \E dt \in 0..MaxDelta, cur \in FaultFrames : ProcessRaises(dt, cur)

NextFaults ==
    \/ InitializeCamera(TRUE)
    \/ ReadFails
    \/ TickFaults
    \/ RaiseFaults
    \/ KeyNone
    \/ KeyQuit
    \/ \E dt \in 0..MaxDelta : KeyReset(dt)

SpecFaults == InitFaults /\ [][NextFaults]_vars

-----------------------------------------------------------------------------
(* Kernel sizes: run() under configured blur and morphology kernel sizes   *)
(* in and out of range.                                                    *)

BlurSizes == {-1, 0, 20, 21}

MorphologySizes == {-1, 5}

InitConfig ==
    \E blur \in BlurSizes, morphology \in MorphologySizes :
        InitWith([DefaultConfig EXCEPT !.GAUSSIAN_BLUR_SIZE = blur,
                                       !.MORPHOLOGY_KERNEL_SIZE = morphology,
                                       !.MOTION_ALERT_COOLDOWN = 0])

TickConfig ==
    /\ self.frame_count < MaxFrames
    /\ \E dt \in 0..MaxDelta, cur \in TickFrames, cs \in FoundChoices :
           ProcessMotionDetection(dt, cur, cs)

RaiseConfig ==
    /\ self.frame_count < MaxFrames
    /\ \E dt \in 0..MaxDelta, cur \in TickFrames : ProcessRaises(dt, cur)

NextConfig ==
    \/ InitializeCamera(TRUE)
    \/ TickConfig
    \/ RaiseConfig
    \/ KeyNone
    \/ KeyQuit

SpecConfig == InitConfig /\ [][NextConfig]_vars

-----------------------------------------------------------------------------
(* Lighting: a still scene for SettleFrames frames, then frames of any     *)
(* lighting, across the 30th frame, with and without the adaptive          *)
(* threshold.                                                              *)

\* Mean 30, mean exactly 50, mean exactly 200, mean 215
Dark == <<20, 40>>

AtDark == <<50, 50>>

AtBright == <<200, 200>>

Bright == <<210, 220>>

LightFrames == {Dark, AtDark, Gray, AtBright, Bright}

InitLighting ==
    \E adaptive \in BOOLEAN :
        InitWith([DefaultConfig EXCEPT !.ADAPTIVE_THRESHOLD = adaptive])

TickSettle ==
    /\ self.frame_count < SettleFrames
    /\ ProcessMotionDetection(0, Gray, <<>>)

TickLit ==
    /\ self.frame_count >= SettleFrames
    /\ self.frame_count < SettleFrames + LitFrames
    /\ \E cur \in LightFrames, cs \in {<<>>, <<Ordinary>>} :
           ProcessMotionDetection(0, cur, cs)

\* 'r' pressed once the scene has settled
KeyResetLit ==
    /\ self.frame_count >= SettleFrames
    /\ KeyReset(0)

NextLighting ==
    \/ InitializeCamera(TRUE)
    \/ TickSettle
    \/ TickLit
    \/ KeyNone
    \/ KeyResetLit

SpecLighting == InitLighting /\ [][NextLighting]_vars

-----------------------------------------------------------------------------
(* run() from start to end on a stream of at most MaxFrames frames, after  *)
(* which cap.read() fails, with every way out of the loop.  run() is one   *)
(* sequential thread, so it always takes its next step.                    *)

NextRun ==
    \/ \E opened \in BOOLEAN : InitializeCamera(opened)
    \/ ReadFails
    \/ TickFaults
    \/ RaiseFaults
    \/ KeyNone
    \/ KeyQuit
    \/ KeySave
    \/ \E dt \in 0..MaxDelta : KeyReset(dt)
    \/ KeyToggle
    \/ Interrupt

SpecRun == InitFaults /\ [][NextRun]_vars /\ WF_vars(NextRun)

-----------------------------------------------------------------------------
(* Background update: frames that change at every tick, with or without a  *)
(* region found, long enough for ten consecutive motion frames and more.   *)

TickBackground ==
    /\ self.frame_count < BackgroundFrames
    /\ \E cur \in TickFrames \ {self.prev_frame}, cs \in {<<>>, <<Ordinary>>} :
           ProcessMotionDetection(0, cur, cs)

NextBackground ==
    \/ InitializeCamera(TRUE)
    \/ TickBackground
    \/ KeyNone

SpecBackground == InitWith(DefaultConfig) /\ [][NextBackground]_vars

-----------------------------------------------------------------------------
(* Classification of the reported regions: frames that change at every     *)
(* tick, regions on both sides of MIN_HUMAN_AREA, no cooldown.             *)

\* Three contours far from each other: one unit below MIN_HUMAN_AREA, exactly
\* MIN_HUMAN_AREA, and far above it
Below == [x |-> 0, y |-> 0, w |-> 60, h |-> 50, area |-> 2999]

AtThreshold == [x |-> 200, y |-> 0, w |-> 60, h |-> 50, area |-> 3000]

Large == [x |-> 0, y |-> 200, w |-> 250, h |-> 200, area |-> 40000]

ClassifyChoices ==
    {<<>>, <<Speck>>, <<Below>>, <<AtThreshold>>, <<Large>>, <<Below, AtThreshold>>,
     <<Speck, Large>>, <<Below, AtThreshold, Large>>}

InitClassify ==
    \E n \in 1..MaxPersistence, merge \in BOOLEAN :
        InitWith([DefaultConfig EXCEPT !.MOTION_PERSISTENCE_FRAMES = n,
                                       !.MOTION_ALERT_COOLDOWN = 0,
                                       !.MERGE_NEARBY_CONTOURS = merge])

TickClassify ==
    /\ self.frame_count < MaxFrames
    /\ \E cur \in TickFrames \ {self.prev_frame}, cs \in ClassifyChoices :
           ProcessMotionDetection(1, cur, cs)

NextClassify ==
    \/ InitializeCamera(TRUE)
    \/ TickClassify
    \/ KeyNone

SpecClassify == InitClassify /\ [][NextClassify]_vars

-----------------------------------------------------------------------------
(* Claims *)

LastFlags(flags, n) == SubSeq(flags, Len(flags) - n + 1, Len(flags))

\* C1: counting observations from an empty history, the persistent-motion
\* result is false on each of the first N-1 observations and, from the N-th
\* on, true exactly when at least N-1 of the last N observations were true
\* (N = MOTION_PERSISTENCE_FRAMES).
C1_PersistenceVote ==
    (pc = "key" /\ observed # <<>>) =>
        LET n == config.MOTION_PERSISTENCE_FRAMES
        IN  persistent_motion =
                (/\ Len(observed) >= n
                 /\ CountTrue(LastFlags(observed, n)) >= n - 1)

\* C1 witness: window of 3, five observations, one miss tolerated in the last three
C1_Witness ==
    /\ pc = "key"
    /\ config.MOTION_PERSISTENCE_FRAMES = 3
    /\ observed = <<TRUE, FALSE, FALSE, TRUE, TRUE>>
    /\ persistent_motion

\* C2: when every frame read is the same frame, no MotionEvent is ever emitted,
\* whatever the persistence window and the cooldown.
C2_NoEventOnIdenticalFrames == log = <<>>

\* C4: any two emitted events are more than MOTION_ALERT_COOLDOWN apart, and a
\* tick with persistent motion no more than the cooldown after the last event
\* emits nothing and leaves last_motion_time alone.
C4_Cooldown ==
    /\ [](\A i, j \in 1..Len(log) :
             i < j => log[j].time - log[i].time > config.MOTION_ALERT_COOLDOWN)
    /\ [][(/\ pc = "process"
           /\ pc' = "key"
           /\ persistent_motion'
           /\ now' - self.last_motion_time <= config.MOTION_ALERT_COOLDOWN)
          => (log' = log /\ self'.last_motion_time = self.last_motion_time)]_vars

\* C4 witness: an event, and a persistent-motion tick one time unit later, within
\* the cooldown, that emitted nothing
C4_Witness ==
    /\ pc = "key"
    /\ config.MOTION_ALERT_COOLDOWN >= 1
    /\ persistent_motion
    /\ Len(log) = 1
    /\ log[1].frame < self.frame_count
    /\ now - log[1].time = 1
    /\ self.last_motion_time = log[1].time

\* C6: between ticks the motion history is never longer than
\* MOTION_PERSISTENCE_FRAMES.
C6_HistoryBounded == Len(self.motion_history) <= config.MOTION_PERSISTENCE_FRAMES

\* C6 witness: a full window from which a flag has been evicted
C6_Witness ==
    /\ Len(self.motion_history) = config.MOTION_PERSISTENCE_FRAMES
    /\ Len(observed) > config.MOTION_PERSISTENCE_FRAMES

\* C10: resetting twice in a row (at times t1 <= t2) leaves the detector as one
\* reset (at t2) does, and after a reset the next update_background stores the
\* frame itself, whatever the learning rate.
C10_ResetIdempotent ==
    \A t1 \in {now} : \A t2 \in t1..(t1 + MaxDelta) :
        /\ ResetBackground(ResetBackground(self, t1), t2) = ResetBackground(self, t2)
        /\ ResetBackground(ResetBackground(self, t1), t1) = ResetBackground(self, t1)
        /\ \A frame \in TickFrames : \A rate \in {BACKGROUND_UPDATE_RATE, SLOW_UPDATE_RATE} :
               /\ UpdateBackground(ResetBackground(self, t1).background_frame, frame, rate)
                      = [i \in 1..Len(frame) |-> frame[i] * 1000]
               /\ UpdateBackground(
                      ResetBackground(ResetBackground(self, t1), t2).background_frame,
                      frame, rate)
                      = [i \in 1..Len(frame) |-> frame[i] * 1000]

\* C10 witness: a manual reset taken after motion had been blended into the
\* background, and the frame after it stored as the new background
C10_Witness ==
    /\ pc = "key"
    /\ self.frame_count > 2
    /\ self.consecutive_motion_frames > 0
    /\ observed = <<>>
    /\ self.prev_frame = Block
    /\ self.background_frame = <<128000, 208000>>

\* C3 as claimed: in the sustained-motion scenario (window 3, motion from tick
\* StillFrames + 1 = 11 on) the first MotionEvent is emitted at tick 13, the
\* third motion tick, and not earlier.
C3_FirstEventAtThirdMotionTick ==
    /\ log # <<>> => log[1].frame = StillFrames + 3
    /\ (self.frame_count >= StillFrames + 3 /\ pc = "key") => log # <<>>

\* C3 as amended: the first MotionEvent is emitted at tick 12, the second
\* consecutive motion tick, and none at tick 11 or before.
C3_FirstEventAtSecondMotionTick ==
    /\ log # <<>> => log[1].frame = StillFrames + 2
    /\ (self.frame_count >= StillFrames + 2 /\ pc = "key") => log # <<>>

\* C3 witness: tick 12 is done and its event is the first one logged
C3_Witness ==
    /\ pc = "key"
    /\ self.frame_count = StillFrames + 2
    /\ self.motion_history = <<FALSE, TRUE, TRUE>>
    /\ Len(log) = 1
    /\ log[1].frame = StillFrames + 2

\* C5: every region returned by the extraction (filter, merge, cap) has an
\* area within [MIN_CONTOUR_AREA, MAX_CONTOUR_AREA].
C5_ReturnedAreasValid ==
    pc = "extracted" =>
        \A i \in 1..Len(contours) :
            MIN_CONTOUR_AREA <= contours[i].area /\ contours[i].area <= MAX_CONTOUR_AREA

\* C7: a pixel of the mask is marked changed exactly when the absolute
\* difference of the two frames there is strictly greater than the effective
\* threshold; when no pixel differs by more than it, the mask has no changed
\* pixel and the tick returns no region.
C7_StrictThreshold ==
    [][(pc = "process" /\ pc' = "key" /\ self.prev_frame # None)
       => LET prev == self.prev_frame
              cur == self'.prev_frame
              t == self'.current_threshold
              far(i) == (IF prev[i] >= cur[i] THEN prev[i] - cur[i]
                         ELSE cur[i] - prev[i]) > t
          IN  /\ Len(thresh') = Len(cur)
              /\ \A i \in 1..Len(cur) : (thresh'[i] = 255) <=> far(i)
              /\ \A i \in 1..Len(cur) : (thresh'[i] = 0) <=> ~far(i)
              /\ (\A i \in 1..Len(cur) : ~far(i)) => contours' = <<>>]_vars

\* C7 witness: under threshold 45 one pixel differed by exactly 45 and the
\* other by 46; only the second is marked
C7_Witness ==
    /\ pc = "key"
    /\ self.current_threshold = 45
    /\ self.prev_frame = <<145, 146>>
    /\ self.background_frame = <<100225, 100230>>
    /\ thresh = <<0, 255>>

Gap(lo1, len1, lo2, len2) ==
    (IF lo1 >= lo2 THEN lo1 ELSE lo2)
      - (IF lo1 + len1 <= lo2 + len2 THEN lo1 + len1 ELSE lo2 + len2)

\* The two bounding boxes are side by side (or one above the other) with a
\* gap of 20 pixels between them
TwentyApart(a, b) ==
    \/ Gap(a.x, a.w, b.x, b.w) = 20 /\ Gap(a.y, a.h, b.y, b.h) < 0
    \/ Gap(a.y, a.h, b.y, b.h) = 20 /\ Gap(a.x, a.w, b.x, b.w) < 0

\* The one region returned spans the union of the two bounding boxes
IsUnionOf(out, a, b) ==
    /\ Len(out) = 1
    /\ out[1].x = (IF a.x <= b.x THEN a.x ELSE b.x)
    /\ out[1].y = (IF a.y <= b.y THEN a.y ELSE b.y)
    /\ out[1].x + out[1].w - 1 = (IF a.x + a.w >= b.x + b.w THEN a.x + a.w ELSE b.x + b.w)
    /\ out[1].y + out[1].h - 1 = (IF a.y + a.h >= b.y + b.h THEN a.y + a.h ELSE b.y + b.h)

MergeCase ==
    /\ pc = "extracted"
    /\ config.MERGE_NEARBY_CONTOURS
    /\ config.MAX_DETECTION_OBJECTS >= 2
    /\ Len(found) = 2
    /\ \A i \in 1..2 :
           MIN_CONTOUR_AREA <= found[i].area /\ found[i].area <= MAX_CONTOUR_AREA
    /\ TwentyApart(found[1], found[2])

\* C8 as claimed: two area-valid regions whose boxes are 20 pixels apart come
\* back as one region spanning the union of the boxes, whatever their sizes.
C8_MergedWhateverTheSize ==
    MergeCase => IsUnionOf(contours, found[1], found[2])

\* C8 as amended: they do when the centres of the two boxes are less than
\* CONTOUR_MERGE_DISTANCE = 100 apart.
C8_MergedWhenCentresClose ==
    (/\ MergeCase
     /\ LET dx == (found[1].x + found[1].w \div 2) - (found[2].x + found[2].w \div 2)
            dy == (found[1].y + found[1].h \div 2) - (found[2].y + found[2].h \div 2)
        IN  dx * dx + dy * dy < 100 * 100)
    => IsUnionOf(contours, found[1], found[2])

\* C8 witness: the two 40x40 boxes 20 pixels apart, merged into the box from
\* (0, 0) to (100, 40)
C8_Witness ==
    /\ MergeCase
    /\ found = <<RowA, RowB>>
    /\ contours = <<[x |-> 0, y |-> 0, w |-> 101, h |-> 41, area |-> 4000]>>

Permutations(n) ==
    {p \in [1..n -> 1..n] : \A i, j \in 1..n : i # j => p[i] # p[j]}

Boxes(cs) == {<<cs[i].x, cs[i].y, cs[i].w, cs[i].h>> : i \in 1..Len(cs)}

\* C9: the merge pass returns the same set of bounding boxes for every order
\* of its input.
C9_MergeOrderIndependent ==
    pc = "extracted" =>
        LET valid == FilterByArea(found)
        IN  \A p \in Permutations(Len(valid)) :
                Boxes(MergeNearbyContours(config, [i \in 1..Len(valid) |-> valid[p[i]]]))
                    = Boxes(MergeNearbyContours(config, valid))

\* The tick just done emitted a MotionEvent
EmittedThisTick == log # <<>> /\ log[Len(log)].frame = self.frame_count

\* Every box of the list carries the area of the region at its place and the
\* label of that area's side of MIN_HUMAN_AREA
LabelledByArea(boxes, regions) ==
    /\ Len(boxes) = Len(regions)
    /\ \A i \in 1..Len(regions) :
           /\ boxes[i].area = regions[i].area
           /\ regions[i].area >= MIN_HUMAN_AREA => boxes[i].label = "HUMAN"
           /\ regions[i].area < MIN_HUMAN_AREA => boxes[i].label = "Motion"

\* C11: a reported region is large (human-sized) exactly when its area is at
\* least MIN_HUMAN_AREA = 3000, and ordinary otherwise, in the human count of
\* the event, in the boxes and counts of the live view and in the boxes of the
\* saved image.
C11_SameRuleEverywhere ==
    pc = "key" =>
        LET humans == Cardinality({i \in 1..Len(contours) : contours[i].area >= 3000})
        IN  /\ display.human_count = humans
            /\ persistent_motion => LabelledByArea(display.boxes, contours)
            /\ display.counts # <<>> => display.counts = <<Len(contours) - humans, humans>>
            /\ EmittedThisTick => log[Len(log)].humans = humans
            /\ (EmittedThisTick /\ contours # <<>>) =>
                   /\ LabelledByArea(saved.boxes, contours)
                   /\ saved.humans = humans

\* C11 witness: an event whose regions have areas 2999, 3000 and 40000; the
\* first is saved and drawn as ordinary motion, the other two as human
C11_Witness ==
    /\ pc = "key"
    /\ EmittedThisTick
    /\ contours = <<Below, AtThreshold, Large>>
    /\ log[Len(log)].humans = 2
    /\ saved.boxes[1].label = "Motion"
    /\ saved.boxes[2].label = "HUMAN"
    /\ saved.boxes[3].label = "HUMAN"
    /\ display.boxes[1].label = "Motion"
    /\ display.boxes[2].label = "HUMAN"

\* out lists the n regions of survivors of largest area, in descending order
\* of area, regions of equal area in the order they have in survivors: pick[k]
\* is the place in survivors of out[k]
LargestFirst(out, survivors, n) ==
    /\ Len(out) = n
    /\ \E pick \in [1..n -> 1..Len(survivors)] :
           /\ \A k \in 1..n : out[k] = survivors[pick[k]]
           /\ \A k, l \in 1..n :
                  k < l => \/ out[k].area > out[l].area
                           \/ out[k].area = out[l].area /\ pick[k] < pick[l]
           /\ \A j \in 1..Len(survivors) :
                  (\A k \in 1..n : pick[k] # j) =>
                      \A k \in 1..n :
                          \/ survivors[j].area < out[k].area
                          \/ survivors[j].area = out[k].area /\ pick[k] < j

\* C12: at most MAX_DETECTION_OBJECTS regions are reported; when more survive
\* the filter and the merge, the reported ones are the MAX_DETECTION_OBJECTS of
\* largest area in descending order of area, ties in input order; otherwise
\* the survivors are reported unchanged, in extraction order.
C12_CapKeepsLargest ==
    pc = "extracted" =>
        LET survivors == MergeNearbyContours(config, FilterByArea(found))
            cap == config.MAX_DETECTION_OBJECTS
        IN  /\ Len(contours) <= cap
            /\ Len(survivors) <= cap => contours = survivors
            /\ Len(survivors) > cap => LargestFirst(contours, survivors, cap)

\* C12 witness: three survivors under a cap of 2, the largest first and, of the
\* two of equal area, the one that came first
C12_Witness ==
    /\ pc = "extracted"
    /\ ~config.MERGE_NEARBY_CONTOURS
    /\ config.MAX_DETECTION_OBJECTS = 2
    /\ found = <<RowB, WideA, RowA>>
    /\ contours = <<WideA, RowB>>

\* C13: a frame that cannot be read, or a malformed one, is skipped: the loop
\* of run() is left only on the user's request, never on a fault of a frame.
C13_FaultyFrameSkipped ==
    pc = "done" => printed \notin {"Failed to read frame", "Error: cv2.error"}

\* C14: when the frame read differs in size from the stored previous frame,
\* the tick completes with the state reset (no motion history, no previous
\* frame other than the new one) and run() stays in its loop.
C14_MismatchResets ==
    [][(/\ self'.frame_count = self.frame_count + 1
        /\ self.prev_frame # None
        /\ Len(last_frame') # Len(self.prev_frame))
       => (/\ pc' = "key"
           /\ printed' = ""
           /\ self'.motion_history = <<>>
           /\ self'.prev_frame \in {None, last_frame'})]_vars

\* C15: a detector configured with a non-positive blur or morphology kernel
\* size is refused at construction: it never reads a frame, never blurs one,
\* and no error of the configuration comes up while run() is under way.
C15_InvalidConfigNeverRuns ==
    (config.GAUSSIAN_BLUR_SIZE <= 0 \/ config.MORPHOLOGY_KERNEL_SIZE <= 0) =>
        /\ self.frame_count = 0
        /\ kernel = <<>>
        /\ printed \notin {"Error: cv2.error", "Error: ValueError"}

\* C18: the kernel size handed to the blur is odd: the configured size, or the
\* next odd value when the configured size is even.
C18_BlurKernelOdd ==
    kernel # <<>> =>
        LET configured == config.GAUSSIAN_BLUR_SIZE
            odd == IF configured % 2 = 0 THEN configured + 1 ELSE configured
        IN  kernel = <<odd, odd>>

\* C16: a processed tick emits a MotionEvent exactly when persistent motion is
\* reported and more than MOTION_ALERT_COOLDOWN has passed since the last
\* event; an emitting tick sets last_motion_time to its own time and adds one
\* to total_detections, any other tick leaves both, and the log, as they were.
C16_EventRule ==
    [][(pc = "process" /\ pc' = "key") =>
          LET emitted == Len(log') = Len(log) + 1
              due == /\ persistent_motion'
                     /\ now' - self.last_motion_time > config.MOTION_ALERT_COOLDOWN
          IN  /\ emitted <=> due
              /\ emitted =>
                     /\ SubSeq(log', 1, Len(log)) = log
                     /\ log'[Len(log')].time = now'
                     /\ self'.last_motion_time = now'
                     /\ self'.total_detections = self.total_detections + 1
              /\ ~emitted =>
                     /\ log' = log
                     /\ self'.last_motion_time = self.last_motion_time
                     /\ self'.total_detections = self.total_detections]_vars

\* C16 witness: the second event has just been emitted, later than the first,
\* and the timer and the count follow it
C16_Witness ==
    /\ pc = "key"
    /\ Len(log) = 2
    /\ log[2].frame = self.frame_count
    /\ log[1].time < log[2].time
    /\ self.last_motion_time = now
    /\ self.total_detections = 2

\* The tick just done recomputed the lighting baseline under the adaptive
\* threshold
Recomputed ==
    /\ pc = "key"
    /\ last_frame = self.prev_frame
    /\ self.frame_count % 30 = 0
    /\ config.ADAPTIVE_THRESHOLD

DarkScene == self.lighting_baseline < 50 * Len(last_frame)

BrightScene == self.lighting_baseline > 200 * Len(last_frame)

\* C17 as claimed: after a recomputation the effective threshold is the base
\* plus the dark offset for a dark scene, the base plus the bright offset for a
\* bright one and the base otherwise, the bright offset being the larger.
C17_BrightOffsetLarger ==
    Recomputed =>
        LET offset == self.current_threshold - MOTION_THRESHOLD
        IN  /\ DarkScene => offset > 0 /\ offset < AdaptedThreshold(Bright) - MOTION_THRESHOLD
            /\ BrightScene => offset > 0 /\ offset > AdaptedThreshold(Dark) - MOTION_THRESHOLD
            /\ (~DarkScene /\ ~BrightScene) => offset = 0

\* C17 as amended: the dark offset is 15 and the bright offset 10, so the dark
\* offset is the larger.
C17_DarkOffsetLarger ==
    Recomputed =>
        /\ self.lighting_baseline = SumSeq(last_frame)
        /\ DarkScene => self.current_threshold = MOTION_THRESHOLD + 15
        /\ BrightScene => self.current_threshold = MOTION_THRESHOLD + 10
        /\ (~DarkScene /\ ~BrightScene) => self.current_threshold = MOTION_THRESHOLD

\* C17 witness: frame 30 was dark (mean 30) and raised the threshold to 50
C17_Witness ==
    /\ Recomputed
    /\ self.frame_count = 30
    /\ last_frame = Dark
    /\ self.current_threshold = 50

\* C19: the lighting baseline and the effective threshold change only in the
\* processing of a frame whose number is a multiple of 30; with the adaptive
\* threshold disabled the effective threshold never changes and is the base
\* threshold throughout.
C19_RecomputedEveryThirtieth ==
    /\ [][(\/ self'.lighting_baseline # self.lighting_baseline
            \/ self'.current_threshold # self.current_threshold)
           => (/\ self'.frame_count = self.frame_count + 1
               /\ self'.frame_count % 30 = 0)]_vars
    /\ [][~config.ADAPTIVE_THRESHOLD
              => self'.current_threshold = self.current_threshold]_vars
    /\ [](~config.ADAPTIVE_THRESHOLD => self.current_threshold = MOTION_THRESHOLD)

\* C19 witness: frame 30 was dark and frame 31 bright; the baseline and the
\* threshold are still those of frame 30
C19_Witness ==
    /\ pc = "key"
    /\ self.frame_count = 31
    /\ last_frame = Bright
    /\ self.lighting_baseline = 60
    /\ self.current_threshold = 50

\* C20: the effective threshold is never negative: it is always the base
\* threshold, the base plus 10 or the base plus 15.
C20_ThresholdRange ==
    /\ self.current_threshold >= 0
    /\ self.current_threshold \in
           {MOTION_THRESHOLD, MOTION_THRESHOLD + 10, MOTION_THRESHOLD + 15}

\* C20 witness: frame 30 was bright and the threshold in force afterwards is 45
C20_Witness ==
    /\ self.frame_count > 30
    /\ self.lighting_baseline = 430
    /\ self.current_threshold = 45

\* The accumulator bg after blending frame cur into it at rate thousandths
BlendOf(bg, cur, rate) ==
    [i \in 1..Len(cur) |-> (bg[i] * (1000 - rate) + cur[i] * 1000 * rate) \div 1000]

\* C21: on a ready tick, no region: the background is blended at the default
\* rate 0.005 and the consecutive-motion count becomes 0; regions and a count
\* (this tick included) below 10: blended at the slow rate 0.001; regions and
\* a count of 10 or more: the background is left as it was.
C21_BackgroundFollowsCount ==
    [][(pc = "process" /\ pc' = "key" /\ thresh' # None) =>
          LET bg == self.background_frame
              count == self.consecutive_motion_frames + 1
          IN  /\ contours' = <<>> =>
                     /\ self'.consecutive_motion_frames = 0
                     /\ self'.background_frame = BlendOf(bg, last_frame', 5)
              /\ contours' # <<>> =>
                     /\ self'.consecutive_motion_frames = count
                     /\ count < 10 => self'.background_frame = BlendOf(bg, last_frame', 1)
                     /\ count >= 10 => self'.background_frame = bg]_vars

\* C21 witness: eleven consecutive motion frames, the background still what
\* the first nine left
C21_Witness ==
    /\ pc = "key"
    /\ self.consecutive_motion_frames = 11
    /\ self.frame_count = 12
    /\ self.background_frame # Seeded(Gray)

\* C22 as claimed: whenever the previous frame is absent (at construction and
\* right after a reset) the background is uninitialised, the motion history is
\* empty and the consecutive-motion count is 0.
C22_ResetIsFull ==
    self.prev_frame = None =>
        /\ self.background_frame = None
        /\ self.motion_history = <<>>
        /\ self.consecutive_motion_frames = 0

\* A tick of process_motion_detection that ran to its end
TickStep == pc = "process" /\ pc' = "key"

\* C23: a tick that finds no previous frame (the first tick, the tick after a
\* manual reset, the tick of a periodic reset) stores the frame as previous
\* frame, seeds the background from it, returns no mask, no regions and no
\* persistent motion, emits no event, and leaves the motion history (empty
\* since the reset) and the consecutive-motion count as they were.
C23_NotReadyTick ==
    [][(TickStep /\ (\/ self.prev_frame = None
                     \/ /\ config.AUTO_RESET_BACKGROUND
                        /\ now' - self.last_background_reset
                               > config.RESET_BACKGROUND_INTERVAL)) =>
          /\ self'.prev_frame = last_frame'
          /\ self'.background_frame = [i \in 1..Len(last_frame') |-> 1000 * last_frame'[i]]
          /\ thresh' = None
          /\ contours' = <<>>
          /\ ~persistent_motion'
          /\ log' = log
          /\ self'.total_detections = self.total_detections
          /\ self'.motion_history = <<>>
          /\ self.prev_frame = None => self'.motion_history = self.motion_history
          /\ self'.consecutive_motion_frames = self.consecutive_motion_frames]_vars

\* C23 witness: the tick after a reset that followed motion, the new frame
\* stored and nothing reported
C23_Witness ==
    /\ pc = "key"
    /\ self.frame_count > 1
    /\ thresh = None
    /\ self.motion_history = <<>>
    /\ self.consecutive_motion_frames > 0
    /\ self.prev_frame = last_frame
    /\ self.background_frame = Seeded(last_frame)

\* C24: with a window of two frames or more, a tick that emits an event is at
\* least the persistenceFrames-th ready tick since construction or the last
\* reset, periodic or manual.
C24_WarmUp ==
    (pc = "key" /\ EmittedThisTick /\ config.MOTION_PERSISTENCE_FRAMES >= 2) =>
        Len(observed) >= config.MOTION_PERSISTENCE_FRAMES

\* C24 witness: the first ready tick after a reset shows motion, the cooldown
\* has never started, and no event is emitted
C24_Witness ==
    /\ pc = "key"
    /\ config.MOTION_PERSISTENCE_FRAMES = 2
    /\ self.frame_count = 3
    /\ self.last_background_reset > StartTime
    /\ observed = <<TRUE>>
    /\ log = <<>>

\* A step of process_motion_detection that read a frame, whether it ran to
\* its end or raised
FrameStep == self'.frame_count = self.frame_count + 1

\* C25: a tick takes a periodic reset exactly when autoResetBackground is
\* enabled and more than resetInterval has elapsed since last_background_reset,
\* which is the time of the most recent reset of either kind (or of
\* construction): a periodic reset and a manual reset both set it to the
\* current time and nothing else changes it.  A tick that took the reset
\* finds no previous frame.
C25_PeriodicReset ==
    [][LET last == self.last_background_reset
           elapsed == now' - last
           taken == self'.last_background_reset # last
       IN  /\ FrameStep =>
                  /\ taken <=> (config.AUTO_RESET_BACKGROUND
                                   /\ elapsed > config.RESET_BACKGROUND_INTERVAL)
                  /\ taken => /\ self'.last_background_reset = now'
                              /\ self'.motion_history = <<>>
                              /\ TickStep => thresh' = None
                  /\ (~taken /\ TickStep /\ self.prev_frame # None) => thresh' # None
           /\ (~FrameStep /\ taken) =>
                  /\ pc = "key"
                  /\ self'.prev_frame = None
                  /\ self'.last_background_reset = now'
           /\ (pc = "key" /\ self'.prev_frame = None) =>
                  self'.last_background_reset = now']_vars

\* C25 witness: a tick two time units after construction, interval 1, has taken
\* the periodic reset
C25_Witness ==
    /\ pc = "key"
    /\ config.AUTO_RESET_BACKGROUND
    /\ self.frame_count = 2
    /\ now = StartTime + 2
    /\ self.last_background_reset = now
    /\ thresh = None
    /\ self.motion_history = <<>>

\* C26 as claimed: every logged event has at least one region and a positive
\* total area
C26_EventHasRegion ==
    \A i \in 1..Len(log) : log[i].objects > 0 /\ log[i].area > 0

\* The box of region out contains the box of region c
Covers(out, c) ==
    /\ out.x <= c.x
    /\ out.y <= c.y
    /\ out.x + out.w >= c.x + c.w
    /\ out.y + out.h >= c.y + c.h

\* C27 as claimed: every contour that passed the area filter lies inside one
\* region of the merge output
C27_MergeKeepsAll ==
    (pc = "extracted" /\ config.MERGE_NEARBY_CONTOURS) =>
        LET valid == FilterByArea(found)
            merged == MergeNearbyContours(config, valid)
        IN  \A i \in 1..Len(valid) :
                \E k \in 1..Len(merged) : Covers(merged[k], valid[i])

\* C28: the previous frame is absent exactly when the background is
\* uninitialised, and a non-empty motion history implies both are present.
C28_FramesTogether ==
    /\ (self.prev_frame = None) <=> (self.background_frame = None)
    /\ self.motion_history # <<>> =>
           (self.prev_frame # None /\ self.background_frame # None)

\* C28 witness: a reset has been taken and the detector has a history again
C28_Witness ==
    /\ self.last_background_reset > StartTime
    /\ self.motion_history # <<>>
    /\ self.prev_frame # None
    /\ self.background_frame # None

\* C29: human_detections <= total_detections <= frame_count always; a frame
\* that was read adds exactly one to frame_count and at most one to
\* total_detections; a failed read, a key and a reset change no counter; no
\* counter ever decreases.
C29_Counters ==
    /\ [](/\ self.human_detections <= self.total_detections
          /\ self.total_detections <= self.frame_count)
    /\ [][LET frames == self'.frame_count - self.frame_count
              total == self'.total_detections - self.total_detections
              human == self'.human_detections - self.human_detections
          IN  /\ frames \in {0, 1}
              /\ total \in {0, 1}
              /\ human \in {0, 1}
              /\ human <= total
              /\ total <= frames
              /\ TickStep => frames = 1
              /\ printed' = "Failed to read frame" => (frames = 0 /\ total = 0 /\ human = 0)
              /\ pc = "key" => (frames = 0 /\ total = 0 /\ human = 0)]_vars

\* C29 witness: an event with a human has been counted and a reset taken
\* after it has left the counters alone
C29_Witness ==
    /\ self.human_detections = 1
    /\ self.total_detections = 1
    /\ self.frame_count = 3
    /\ self.last_background_reset > StartTime

\* The messages run() prints on its ways out of the loop
ExitMessages ==
    {"Error: Cannot open camera", "Failed to read frame", "Quitting",
     "Interrupted by user", "Error: cv2.error", "Error: ValueError"}

\* C30: run() on a stream that ends reaches cleanup, and cleanup runs exactly
\* once: it has run when and only when run() is over, every way out (camera
\* failure, failed read, quit key, keyboard interrupt, exception in a tick)
\* goes through it, and nothing is processed after it.
C30_CleanupOnce ==
    /\ [](cleanups <= 1)
    /\ [](pc = "done" <=> cleanups = 1)
    /\ [](pc = "done" => printed \in ExitMessages)
    /\ [][pc # "done"]_vars
    /\ [][printed' # printed => (cleanups' = 1 /\ printed' \in ExitMessages)]_vars
    /\ <>(cleanups = 1)

\* C30 witness: a tick raised after frames had been processed, and cleanup ran
C30_Witness ==
    /\ pc = "done"
    /\ cleanups = 1
    /\ printed = "Error: cv2.error"
    /\ self.frame_count = MaxFrames
    /\ self.motion_history # <<>>

=============================================================================
